---- MODULE Spec2Model ----
(***************************************************************************)
(* h5ai-dl (src/main.go): a recursive crawler of a directory-index server. *)
(* crawlDirectory lists a directory and dispatches every entry through a   *)
(* soft concurrency gate (threads / maxThreads): a sub-directory to        *)
(* crawlDirectoryAsync, a file to saveContentAsync. A dispatch either      *)
(* starts a goroutine or runs the branch inline on the caller's stack.     *)
(* saveContent appends the URL to urls.txt under urlFileMtx and, unless    *)
(* writeUrlOnly, downloadUrl verifies / repairs / downloads the local      *)
(* file. main crawls the root, sleeps, waits on the WaitGroup and exits.   *)
(*                                                                         *)
(* Paths are sequences of one-character strings, so that HasPrefix,        *)
(* HasSuffix, Split, PathUnescape and TrimSpace are computed as the code   *)
(* computes them. A goroutine is named by the path of the branch it runs;  *)
(* the main goroutine is named by the empty path.                          *)
(***************************************************************************)
EXTENDS Integers, Sequences, FiniteSets, TLC

\* ------------------------------------------------------------------ bounds
\* maxThreads (os.Args[3] or NumCPU) is drawn from 0..MaxLimit
MaxLimit == 2
\* the program is run at most MaxRuns times over the same downloads root
MaxRuns == 2
\* at most MaxFaults calls fail in one run (a listing, a directory creation, a
\* fetch, a file creation, a read or a write)
MaxFaults == 1
\* var buffer = make([]byte, 4096)
BufSize == 4096
\* the longest path given to the filter of crawlDirectory on its own
MaxPathLen == 4

\* ------------------------------------------------------- the remote server
MainG == <<>>
Root == <<"/", "d", "/">>
DirS == <<"/", "d", "/", "s", "/">>
FileA == <<"/", "d", "/", "a">>
FileB == <<"/", "d", "/", "s", "/", "b">>
Outside == <<"/", "x">>

AllPaths == {Root, DirS, FileA, FileB, Outside}
Gor == {MainG} \cup AllPaths

\* ------------------------------------------------------------ string helpers
HasPrefix(s, prefix) ==
    Len(s) >= Len(prefix) /\ SubSeq(s, 1, Len(prefix)) = prefix

HasSuffix(s, suffix) ==
    Len(s) >= Len(suffix) /\ SubSeq(s, Len(s) - Len(suffix) + 1, Len(s)) = suffix

RECURSIVE SplitRec(_, _, _)
SplitRec(s, cur, acc) ==
    IF s = << >> THEN Append(acc, cur)
    ELSE IF Head(s) = "/" THEN SplitRec(Tail(s), << >>, Append(acc, cur))
    ELSE SplitRec(Tail(s), Append(cur, Head(s)), acc)

\* strings.Split(s, "/")
Split(s) == SplitRec(s, << >>, << >>)

HexDigits == {"0", "1", "2", "3", "4", "5", "6", "7", "8", "9",
              "a", "b", "c", "d", "e", "f", "A", "B", "C", "D", "E", "F"}

\* the byte a %XY escape stands for, over the alphabet of the model
Decode(h, l) ==
    IF h = "2" /\ l = "0" THEN " "
    ELSE IF h = "2" /\ l \in {"f", "F"} THEN "/"
    ELSE IF h = "2" /\ l = "5" THEN "%"
    ELSE IF h = "6" /\ l = "1" THEN "a"
    ELSE IF h = "6" /\ l = "2" THEN "b"
    ELSE "?"

RECURSIVE PathUnescape(_)
\* url.PathUnescape: [ok, val]; a % that is not followed by two hex digits is
\* an error
PathUnescape(s) ==
    IF s = << >> THEN [ok |-> TRUE, val |-> << >>]
    ELSE IF Head(s) = "%"
         THEN IF Len(s) >= 3 /\ s[2] \in HexDigits /\ s[3] \in HexDigits
              THEN LET r == PathUnescape(SubSeq(s, 4, Len(s)))
                   IN  [ok |-> r.ok, val |-> << Decode(s[2], s[3]) >> \o r.val]
              ELSE [ok |-> FALSE, val |-> << >>]
         ELSE LET r == PathUnescape(Tail(s))
              IN  [ok |-> r.ok, val |-> << Head(s) >> \o r.val]

RECURSIVE TrimLeft(_)
TrimLeft(s) == IF s # << >> /\ Head(s) = " " THEN TrimLeft(Tail(s)) ELSE s

RECURSIVE TrimRight(_)
TrimRight(s) ==
    IF s # << >> /\ s[Len(s)] = " " THEN TrimRight(SubSeq(s, 1, Len(s) - 1)) ELSE s

\* strings.TrimSpace
TrimSpace(s) == TrimRight(TrimLeft(s))

RECURSIVE JoinParts(_)
\* strings.Join(parts, "/")
JoinParts(parts) ==
    IF parts = << >> THEN << >>
    ELSE IF Len(parts) = 1 THEN parts[1]
    ELSE parts[1] \o << "/" >> \o JoinParts(Tail(parts))

RECURSIVE DownloadParts(_, _)
DownloadParts(segs, parts) ==
    IF segs = << >> THEN [ok |-> TRUE, val |-> parts]
    ELSE LET u == PathUnescape(Head(segs))
         IN  IF ~u.ok THEN [ok |-> FALSE, val |-> << >>]
             ELSE LET str == TrimSpace(u.val)
                  IN  DownloadParts(Tail(segs),
                                    IF Len(str) > 0 THEN Append(parts, str) ELSE parts)

\* getDownloadPath: [ok, val]; the root part "downloads" is one symbol
getDownloadPath(entryPath) ==
    LET r == DownloadParts(Split(entryPath), << << "downloads" >> >>)
    IN  [ok |-> r.ok, val |-> IF r.ok THEN JoinParts(r.val) ELSE << >>]

\* getDownloadPath of every path of the server, computed once
DownloadPathOf == [p \in AllPaths |-> getDownloadPath(p)]

\* the files the server holds under Root, and the local paths they are saved at
Files == {FileA, FileB}
LocalPaths == {DownloadPathOf[p].val : p \in {q \in Files : DownloadPathOf[q].ok}}

Absent == -1

\* ------------------------------------------------------------------- state
VARIABLES
    maxThreads,     \* var maxThreads int64
    writeUrlOnly,   \* var writeUrlOnly bool
    threads,        \* var threads int64
    wg,             \* the counter of var wg sync.WaitGroup
    mainpc,         \* where main is: "crawl", "wait", "done"
    stack,          \* the call stack of every goroutine, innermost frame last
    bst,            \* per entry: "none", "pending", "running", "worked",
                    \*            "released", "finished"
    mode,           \* per entry: "none", "async" (go f_async()), "inline"
    incs,           \* per entry: the atomic.AddInt64(&threads, 1) done for it
    decs,           \* per entry: the atomic.AddInt64(&threads, -1) done for it
    admitted,       \* per entry: the value its increment returned
    manifest,       \* the lines of urls.txt
    inAppend,       \* the goroutines holding urlFileMtx
    fs,             \* local path -> size of the file, or Absent
    log,            \* per entry: the I/O its saveContent did, in order
    outcome,        \* per entry: how its saveContent ended; "listerr" for a
                    \*            directory whose listing failed
    faults,         \* the calls that have failed in this run
    run,            \* which run of the program this is
    fs0,            \* the downloads root when this run started
    probe,          \* the arguments and the result of a function applied on its own
    sized           \* the listings of the server give the sizes of the files

vars == << maxThreads, writeUrlOnly, threads, wg, mainpc, stack, bst, mode, incs,
           decs, admitted, manifest, inAppend, fs, log, outcome, faults,
           run, fs0, probe, sized >>

\* what no step of a run changes
cfgVars == << maxThreads, writeUrlOnly, probe, sized >>

gateVars == << threads, incs, decs, admitted >>
maniVars == << manifest, inAppend >>
diskVars == << fs, log, outcome >>
runVars == << run, fs0 >>

\* the size of a file on the server (bytes): the length of the body sent for
\* it, and the size the listing reports for it when it reports one
RemoteSize(p) == IF p = FileA THEN 4096 ELSE IF p = FileB THEN 100 ELSE 0

\* FileEntry, decoded from the listing: Size int64 `json:"size"` stays 0 when
\* the item has no size
Entry(p) == [Path |-> p, Size |-> IF sized THEN RemoteSize(p) ELSE 0]

\* the items the h5ai API answers for a directory: the directory itself and
\* its ancestors are echoed among its children
Listing(d) ==
    IF d = Root THEN << Entry(Root), Entry(DirS), Entry(FileA), Entry(Outside) >>
    ELSE IF d = DirS THEN << Entry(Root), Entry(DirS), Entry(FileB) >>
    ELSE << >>

\* a call fails / no call fails in this step
Fails == faults < MaxFaults /\ faults' = faults + 1
Works == faults' = faults

\* ------------------------------------------------------------------ frames
CrawlFrame(p) ==
    [kind |-> "crawl", path |-> p, size |-> 0, pc |-> "list", i |-> 1, n |-> 0,
     rem |-> 0]

\* (a variant of the frame below: saveContent goes to downloadUrl at once)
SaveFrameUnrecorded(p, sz) ==
    [kind |-> "save", path |-> p, size |-> sz, pc |-> "verify", i |-> 0, n |-> 0,
     rem |-> 0]

SaveFrame(p, sz) ==
    [kind |-> "save", path |-> p, size |-> sz, pc |-> "lock", i |-> 0, n |-> 0,
     rem |-> 0]

\* if strings.HasSuffix(entry.Path, "/") { crawlDirectoryAsync } else { saveContentAsync }
BranchFrame(e) ==
    IF HasSuffix(e.Path, << "/" >>) THEN CrawlFrame(e.Path)
    ELSE SaveFrame(e.Path, e.Size)

Top(g) == stack[g][Len(stack[g])]

\* the process is alive and goroutine g is inside a call
Running(g) == mainpc # "done" /\ stack[g] # << >>

At(g, kind, pc) == Running(g) /\ Top(g).kind = kind /\ Top(g).pc = pc

SetTop(g, f) == [stack EXCEPT ![g] = [@ EXCEPT ![Len(@)] = f]]

\* the status of a branch whose unit of work has just returned
AfterWork(p) ==
    IF mode[p] = "inline" THEN "finished"
    ELSE IF mode[p] = "async" THEN "worked"
    ELSE bst[p]

\* the innermost call of g returns
ReturnFrom(g) ==
    /\ stack' = [stack EXCEPT ![g] = SubSeq(@, 1, Len(@) - 1)]
    /\ bst' = [bst EXCEPT ![Top(g).path] = AfterWork(Top(g).path)]

\* ------------------------------------------------------------------- init
\* a local file is absent, holds a wrong number of bytes, or is complete
InitSizes(lp) ==
    {Absent, 7} \cup {RemoteSize(p) : p \in {q \in Files : DownloadPathOf[q].val = lp}}

\* no function is applied on its own
NoProbe == [op |-> "none", a |-> << >>, b |-> << >>, applied |-> FALSE,
            ra |-> FALSE, rb |-> FALSE]

\* the state in which crawlDirectory(requestPath) is called, but for the
\* arguments of the command line and the downloads root
Started ==
    /\ threads = 0
    /\ wg = 0
    /\ mainpc = "crawl"
    /\ stack = [g \in Gor |-> IF g = MainG THEN << CrawlFrame(Root) >> ELSE << >>]
    /\ bst = [p \in AllPaths |-> "none"]
    /\ mode = [p \in AllPaths |-> "none"]
    /\ incs = [p \in AllPaths |-> 0]
    /\ decs = [p \in AllPaths |-> 0]
    /\ admitted = [p \in AllPaths |-> 0]
    /\ manifest = << >>
    /\ inAppend = {}
    /\ log = [p \in AllPaths |-> << >>]
    /\ outcome = [p \in AllPaths |-> "none"]
    /\ faults = 0
    /\ run = 1

Init ==
    /\ maxThreads \in 0..MaxLimit
    /\ writeUrlOnly \in BOOLEAN
    /\ probe = NoProbe
    /\ sized = TRUE
    /\ Started
    /\ fs \in [LocalPaths -> UNION {InitSizes(lp) : lp \in LocalPaths}]
    /\ \A lp \in LocalPaths : fs[lp] \in InitSizes(lp)
    /\ fs0 = fs

\* --------------------------------------------------------- crawlDirectory
\* if entryPath == entry.Path || !strings.HasPrefix(entry.Path, entryPath) { continue }
Skipped(entryPath, e) == entryPath = e.Path \/ ~HasPrefix(e.Path, entryPath)

RECURSIVE NextIdx(_, _)
\* the index of the next entry of the listing of d, from i on, that the loop
\* dispatches; Len + 1 when there is none
NextIdx(d, i) ==
    IF i > Len(Listing(d)) THEN i
    ELSE IF Skipped(d, Listing(d)[i]) THEN NextIdx(d, i + 1)
    ELSE i

\* (a variant of the return below: the failure ends the goroutine, with the
\* crawls it was in the middle of)
ListingFailedUnwinds(g) ==
    /\ stack' = [stack EXCEPT ![g] = << >>]
    /\ bst' = [p \in AllPaths |->
                  IF \E k \in DOMAIN stack[g] : stack[g][k].path = p THEN AfterWork(p)
                  ELSE bst[p]]
    /\ outcome' = [outcome EXCEPT ![Top(g).path] = "listerr"]

\* getFileIndex has failed: if err != nil { return }
ListingFailed(g) ==
    /\ ReturnFrom(g)
    /\ outcome' = [outcome EXCEPT ![Top(g).path] = "listerr"]

\* fileEntries, err := getFileIndex(entryPath); if err != nil { return }
CrawlList(g) ==
    /\ At(g, "crawl", "list")
    /\ \/ /\ Works
          /\ stack' = SetTop(g, [Top(g) EXCEPT !.pc = "loop"])
          /\ UNCHANGED bst
          /\ UNCHANGED outcome
       \/ /\ Fails
          /\ ListingFailed(g)
    /\ UNCHANGED << cfgVars, gateVars, wg, mainpc, mode, maniVars, fs, log, runVars >>

\* the loop reaches an entry it dispatches:
\* nThreads := atomic.AddInt64(&threads, 1)
Admit(g) ==
    /\ At(g, "crawl", "loop")
    /\ LET f == Top(g)
           j == NextIdx(f.path, f.i)
       IN  /\ j <= Len(Listing(f.path))
           /\ LET e == Listing(f.path)[j].Path
              IN  /\ threads' = threads + 1
                  /\ incs' = [incs EXCEPT ![e] = @ + 1]
                  /\ admitted' = [admitted EXCEPT ![e] = threads + 1]
                  /\ stack' = SetTop(g, [f EXCEPT !.pc = "decide", !.i = j,
                                                  !.n = threads + 1])
    /\ UNCHANGED << cfgVars, faults, decs, wg, mainpc, bst, mode, maniVars, diskVars, runVars >>

\* the loop is over: crawlDirectory returns
CrawlReturn(g) ==
    /\ At(g, "crawl", "loop")
    /\ NextIdx(Top(g).path, Top(g).i) > Len(Listing(Top(g).path))
    /\ ReturnFrom(g)
    /\ UNCHANGED << cfgVars, faults, gateVars, wg, mainpc, mode, maniVars, diskVars, runVars >>

\* (a variant of the test below: the count before the increment is compared)
RunsConcurrentlyOffByOne(nThreads) == nThreads - 1 <= maxThreads

\* (a variant of the test below: the branch at the limit is refused)
RunsConcurrentlyBelow(nThreads) == nThreads < maxThreads

\* if nThreads <= maxThreads
RunsConcurrently(nThreads) == nThreads <= maxThreads

\* go f_async()
Launch(g) ==
    /\ At(g, "crawl", "decide")
    /\ RunsConcurrently(Top(g).n)
    /\ LET f == Top(g)
           e == Listing(f.path)[f.i].Path
       IN  /\ mode' = [mode EXCEPT ![e] = "async"]
           /\ bst' = [bst EXCEPT ![e] = "pending"]
           /\ stack' = SetTop(g, [f EXCEPT !.pc = "loop", !.i = f.i + 1])
    /\ UNCHANGED << cfgVars, faults, gateVars, wg, mainpc, maniVars, diskVars, runVars >>

\* (a variant of the decrement below: the refused dispatch keeps its increment
\* until the inline work is over, and never gives it back)
GiveBackForgotten(e) == UNCHANGED << threads, decs >>

\* the refused dispatch gives its increment back: atomic.AddInt64(&threads, -1)
GiveBack(e) ==
    /\ threads' = threads - 1
    /\ decs' = [decs EXCEPT ![e] = @ + 1]

\* (a variant of the inline call below: the refused branch is started on a
\* goroutine of its own and the dispatch returns at once)
RunInlineDetached(g) ==
    /\ At(g, "crawl", "decide")
    /\ ~RunsConcurrently(Top(g).n)
    /\ LET f == Top(g)
           e == Listing(f.path)[f.i]
       IN  /\ GiveBack(e.Path)
           /\ mode' = [mode EXCEPT ![e.Path] = "inline"]
           /\ bst' = [bst EXCEPT ![e.Path] = "running"]
           /\ stack' = [SetTop(g, [f EXCEPT !.pc = "loop", !.i = f.i + 1])
                           EXCEPT ![e.Path] = << BranchFrame(e) >>]
    /\ UNCHANGED << cfgVars, faults, incs, admitted, wg, mainpc, maniVars, diskVars, runVars >>

\* else { atomic.AddInt64(&threads, -1); saveContent(...) / crawlDirectory(...) }
RunInline(g) ==
    /\ At(g, "crawl", "decide")
    /\ ~RunsConcurrently(Top(g).n)
    /\ LET f == Top(g)
           e == Listing(f.path)[f.i]
       IN  /\ GiveBack(e.Path)
           /\ mode' = [mode EXCEPT ![e.Path] = "inline"]
           /\ bst' = [bst EXCEPT ![e.Path] = "running"]
           /\ stack' = [stack EXCEPT ![g] =
                  Append(SubSeq(@, 1, Len(@) - 1),
                         [f EXCEPT !.pc = "loop", !.i = f.i + 1]) \o << BranchFrame(e) >>]
    /\ UNCHANGED << cfgVars, faults, incs, admitted, wg, mainpc, maniVars, diskVars, runVars >>

\* ------------------------------------------------------------------ f_async
\* the goroutine starts: wg.Add(1); defer wg.Done(); and calls its branch
TaskStart(p) ==
    /\ mainpc # "done"
    /\ bst[p] = "pending"
    /\ wg' = wg + 1
    /\ bst' = [bst EXCEPT ![p] = "running"]
    /\ stack' = [stack EXCEPT ![p] = << BranchFrame(Entry(p)) >>]
    /\ UNCHANGED << cfgVars, faults, gateVars, mainpc, mode, maniVars, diskVars, runVars >>

\* (a variant of the release below: the goroutine ends without its decrement)
TaskReleaseForgotten(p) ==
    /\ mainpc # "done"
    /\ mode[p] = "async"
    /\ bst[p] = "worked"
    /\ bst' = [bst EXCEPT ![p] = "released"]
    /\ UNCHANGED << cfgVars, faults, gateVars, wg, mainpc, stack, mode, maniVars,
                    diskVars, runVars >>

\* the branch has returned: atomic.AddInt64(&threads, -1)
TaskRelease(p) ==
    /\ mainpc # "done"
    /\ mode[p] = "async"
    /\ bst[p] = "worked"
    /\ threads' = threads - 1
    /\ decs' = [decs EXCEPT ![p] = @ + 1]
    /\ bst' = [bst EXCEPT ![p] = "released"]
    /\ UNCHANGED << cfgVars, faults, incs, admitted, wg, mainpc, stack, mode, maniVars,
                    diskVars, runVars >>

\* the deferred wg.Done()
TaskDone(p) ==
    /\ mainpc # "done"
    /\ bst[p] = "released"
    /\ wg' = wg - 1
    /\ bst' = [bst EXCEPT ![p] = "finished"]
    /\ UNCHANGED << cfgVars, faults, gateVars, mainpc, stack, mode, maniVars, diskVars, runVars >>

\* ------------------------------------------------------------- saveContent
Logged(p, events) == [log EXCEPT ![p] = @ \o events]

\* the innermost call of g, a saveContent, returns with outcome oc
Finish(g, oc) ==
    /\ ReturnFrom(g)
    /\ outcome' = [outcome EXCEPT ![Top(g).path] = oc]

\* (a variant of the lock below: the append is entered without the mutex)
LockUnguarded(g) ==
    /\ At(g, "save", "lock")
    /\ inAppend' = inAppend \cup {g}
    /\ stack' = SetTop(g, [Top(g) EXCEPT !.pc = "write"])
    /\ UNCHANGED << cfgVars, faults, gateVars, wg, mainpc, bst, mode, manifest, diskVars, runVars >>

\* writeUrl: urlFileMtx.Lock()
Lock(g) ==
    /\ At(g, "save", "lock")
    /\ inAppend = {}
    /\ inAppend' = {g}
    /\ stack' = SetTop(g, [Top(g) EXCEPT !.pc = "write"])
    /\ UNCHANGED << cfgVars, faults, gateVars, wg, mainpc, bst, mode, manifest, diskVars, runVars >>

\* what urlFile.WriteString(fileUrl + "\n") leaves in the file: the line, or,
\* when the write fails, nothing or a part of the line
Written(p, w) ==
    IF w = "ok" THEN Append(manifest, [loc |-> p, complete |-> TRUE])
    ELSE IF w = "partial" THEN Append(manifest, [loc |-> p, complete |-> FALSE])
    ELSE manifest

\* (a variant of the test below: the download is always attempted)
StopsAfterRecordNever == FALSE

\* saveContent: if !writeUrlOnly { downloadUrl(...) }
StopsAfterRecord == writeUrlOnly

\* writeUrl: urlFile.WriteString(fileUrl + "\n"), the deferred Unlock, and
\* saveContent's if !writeUrlOnly
WriteUrl(g) ==
    /\ At(g, "save", "write")
    /\ \E w \in {"ok", "lost", "partial"} :
          /\ IF w = "ok" THEN Works ELSE Fails
          /\ manifest' = Written(Top(g).path, w)
          /\ log' = Logged(Top(g).path,
                           << IF w = "ok" THEN "record" ELSE "record_failed" >>)
    /\ inAppend' = inAppend \ {g}
    /\ IF StopsAfterRecord
       THEN /\ ReturnFrom(g)
            /\ outcome' = [outcome EXCEPT ![Top(g).path] = "urlonly"]
       ELSE /\ stack' = SetTop(g, [Top(g) EXCEPT !.pc = "verify"])
            /\ UNCHANGED << bst, outcome >>
    /\ UNCHANGED << cfgVars, gateVars, wg, mainpc, mode, fs, runVars >>

\* (a variant of the test below: a complete file is not recognised)
IsIntactLarger(fileSize, downloadSize) == fileSize > downloadSize

\* if fileSize == downloadSize
IsIntact(fileSize, downloadSize) == fileSize = downloadSize

\* (a variant of the removal below: the damaged file is left in place)
RemoveDamagedSkipped(lp) == fs

\* os.Remove(fileName) of a damaged file
RemoveDamaged(lp) == [fs EXCEPT ![lp] = Absent]

\* (a variant of the removal below: the partial file is left in place)
RemoveOnErrorSkipped(lp) == fs

\* os.Remove(fileName) after a failed create, read or write
RemoveOnError(lp) == [fs EXCEPT ![lp] = Absent]

\* downloadUrl up to the network fetch: getDownloadPath, os.MkdirAll,
\* GetFileSize, and the Intact / Damaged decision
Verify(g) ==
    /\ At(g, "save", "verify")
    /\ LET f == Top(g)
           dp == DownloadPathOf[f.path]
       IN  IF ~dp.ok
           THEN /\ Finish(g, "patherr")
                /\ UNCHANGED << fs, log, faults >>
           ELSE \/ \* os.MkdirAll fails (it cannot where the file, and so its
                   \* folder, exists)
                   /\ Fails
                   /\ fs[dp.val] = Absent
                   /\ Finish(g, "mkdirerr")
                   /\ log' = Logged(f.path, << "mkdir_failed" >>)
                   /\ UNCHANGED fs
                \/ /\ Works
                   /\ fs[dp.val] = Absent
                   /\ log' = Logged(f.path, << "mkdir", "stat" >>)
                   /\ stack' = SetTop(g, [f EXCEPT !.pc = "get"])
                   /\ UNCHANGED << fs, bst, outcome >>
                \/ /\ Works
                   /\ fs[dp.val] # Absent
                   /\ IsIntact(fs[dp.val], f.size)
                   /\ log' = Logged(f.path, << "mkdir", "stat" >>)
                   /\ Finish(g, "intact")
                   /\ UNCHANGED fs
                \/ /\ Works
                   /\ fs[dp.val] # Absent
                   /\ ~IsIntact(fs[dp.val], f.size)
                   /\ log' = Logged(f.path, << "mkdir", "stat", "remove" >>)
                   /\ fs' = RemoveDamaged(dp.val)
                   /\ stack' = SetTop(g, [f EXCEPT !.pc = "get"])
                   /\ UNCHANGED << bst, outcome >>
    /\ UNCHANGED << cfgVars, gateVars, wg, mainpc, mode, maniVars, runVars >>

\* resp, err := http.Get(entryUrl), the body holding the file's bytes, and
\* file, err := os.Create(fileName)
GetAndCreate(g) ==
    /\ At(g, "save", "get")
    /\ LET f == Top(g)
           lp == DownloadPathOf[f.path].val
       IN  \/ \* http.Get fails
              /\ Fails
              /\ log' = Logged(f.path, << "get" >>)
              /\ Finish(g, "geterr")
              /\ UNCHANGED fs
           \/ \* os.Create fails
              /\ Fails
              /\ log' = Logged(f.path, << "get", "create_failed", "remove" >>)
              /\ fs' = RemoveOnError(lp)
              /\ Finish(g, "createerr")
           \/ /\ Works
              /\ log' = Logged(f.path, << "get", "create" >>)
              /\ fs' = [fs EXCEPT ![lp] = 0]
              /\ stack' = SetTop(g, [f EXCEPT !.pc = "read", !.rem = RemoteSize(f.path)])
              /\ UNCHANGED << bst, outcome >>
    /\ UNCHANGED << cfgVars, gateVars, wg, mainpc, mode, maniVars, runVars >>

Min(a, b) == IF a <= b THEN a ELSE b

\* one turn of the copy loop: n, err := resp.Body.Read(buffer), then
\* file.Write(buffer[:n]). Read fills the buffer as far as the body reaches;
\* with the last bytes it reports io.EOF at once or on the next call.
ReadChunk(g) ==
    /\ At(g, "save", "read")
    /\ LET f == Top(g)
           lp == DownloadPathOf[f.path].val
           n == Min(BufSize, f.rem)
       IN  \/ \* Read fails
              /\ Fails
              /\ log' = Logged(f.path, << "read_failed", "remove" >>)
              /\ fs' = RemoveOnError(lp)
              /\ Finish(g, "readerr")
           \/ \* Read returns (n, io.EOF), n >= 0 the rest of the body: return
              /\ Works
              /\ n = f.rem
              /\ log' = Logged(f.path, << "eof" >>)
              /\ Finish(g, "eof")
              /\ UNCHANGED fs
           \/ \* Read returns (n, nil) and the write succeeds
              /\ Works
              /\ n > 0
              /\ log' = Logged(f.path, << "write" >>)
              /\ fs' = [fs EXCEPT ![lp] = @ + n]
              /\ stack' = SetTop(g, [f EXCEPT !.rem = f.rem - n])
              /\ UNCHANGED << bst, outcome >>
           \/ \* Read returns (n, nil) and the write fails
              /\ Fails
              /\ n > 0
              /\ log' = Logged(f.path, << "write_failed", "remove" >>)
              /\ fs' = RemoveOnError(lp)
              /\ Finish(g, "writeerr")
    /\ UNCHANGED << cfgVars, gateVars, wg, mainpc, mode, maniVars, runVars >>

\* ---------------------------------------------------------------------- main
\* crawlDirectory(requestPath) has returned: time.Sleep(time.Second). The
\* second is granted its purpose: when it is over, every goroutine created so
\* far has started and has done its wg.Add(1).
MainSleep ==
    /\ mainpc = "crawl"
    /\ stack[MainG] = << >>
    /\ \A p \in AllPaths : bst[p] # "pending"
    /\ mainpc' = "wait"
    /\ UNCHANGED << cfgVars, faults, gateVars, wg, stack, bst, mode, maniVars, diskVars, runVars >>

\* wg.Wait() returns; println("Done!"); main returns and the process ends
MainDone ==
    /\ mainpc = "wait"
    /\ wg = 0
    /\ mainpc' = "done"
    /\ UNCHANGED << cfgVars, faults, gateVars, wg, stack, bst, mode, maniVars, diskVars, runVars >>

\* every branch of the run has finished
Drained == \A p \in AllPaths : bst[p] \in {"none", "finished"}

\* a run in download mode in which no call failed and every branch finished
CompletedRun == mainpc = "done" /\ Drained /\ faults = 0 /\ ~writeUrlOnly

\* the program is started again, with the same arguments, over the downloads
\* root a completed run left: urlFile, err = os.Create("urls.txt")
Restart ==
    /\ CompletedRun
    /\ run < MaxRuns
    /\ run' = run + 1
    /\ faults' = 0
    /\ fs0' = fs
    /\ threads' = 0
    /\ wg' = 0
    /\ mainpc' = "crawl"
    /\ stack' = [g \in Gor |-> IF g = MainG THEN << CrawlFrame(Root) >> ELSE << >>]
    /\ bst' = [p \in AllPaths |-> "none"]
    /\ mode' = [p \in AllPaths |-> "none"]
    /\ incs' = [p \in AllPaths |-> 0]
    /\ decs' = [p \in AllPaths |-> 0]
    /\ admitted' = [p \in AllPaths |-> 0]
    /\ manifest' = << >>
    /\ inAppend' = {}
    /\ log' = [p \in AllPaths |-> << >>]
    /\ outcome' = [p \in AllPaths |-> "none"]
    /\ UNCHANGED << cfgVars, fs >>

\* a step of goroutine g inside crawlDirectory or saveContent
GorStep(g) ==
    \/ CrawlList(g)
    \/ Admit(g)
    \/ CrawlReturn(g)
    \/ Launch(g)
    \/ RunInline(g)
    \/ Lock(g)
    \/ WriteUrl(g)
    \/ Verify(g)
    \/ GetAndCreate(g)
    \/ ReadChunk(g)

\* a step of the goroutine of branch p inside f_async
TaskStep(p) ==
    \/ TaskStart(p)
    \/ TaskRelease(p)
    \/ TaskDone(p)

\* a step of main after crawlDirectory(requestPath)
MainStep ==
    \/ MainSleep
    \/ MainDone

Next ==
    \/ \E g \in Gor : GorStep(g)
    \/ \E p \in AllPaths : TaskStep(p)
    \/ MainStep

\* one run of the program
Spec == Init /\ [][Next]_vars

\* the Go scheduler lets every goroutine that can take a step take one, and
\* every call that is made returns
Fairness ==
    /\ \A g \in Gor : WF_vars(GorStep(g))
    /\ \A p \in AllPaths : WF_vars(TaskStep(p))
    /\ WF_vars(MainStep)

FairSpec == Spec /\ Fairness

\* the program run again and again over the same downloads root
NextRerun == Next \/ Restart

SpecRerun == Init /\ [][NextRerun]_vars

\* the program against a server whose listings give no sizes, in download
\* mode; a local file is absent, empty, or holds some bytes
InitNoSize ==
    /\ maxThreads \in 0..MaxLimit
    /\ writeUrlOnly = FALSE
    /\ probe = NoProbe
    /\ sized = FALSE
    /\ Started
    /\ fs \in [LocalPaths -> {Absent, 0, 7}]
    /\ fs0 = fs

SpecNoSize == InitNoSize /\ [][Next]_vars

\* ------------------------------------------- functions applied on their own
\* every variable but probe
progVars == << maxThreads, writeUrlOnly, threads, wg, mainpc, stack, bst, mode, incs,
               decs, admitted, manifest, inAppend, fs, log, outcome, faults,
               run, fs0, sized >>

\* the program at rest: only a function is applied
AtRest ==
    /\ sized = TRUE
    /\ maxThreads = 0
    /\ writeUrlOnly = FALSE
    /\ Started
    /\ fs = [lp \in LocalPaths |-> Absent]
    /\ fs0 = fs

Probe(op, a, b) ==
    [op |-> op, a |-> a, b |-> b, applied |-> FALSE, ra |-> FALSE, rb |-> FALSE]

\* URL paths over a small alphabet: they start with "/" and have no empty
\* segment inside
PathChars == {"/", "d", "x"}

UrlPaths ==
    {p \in UNION {[1..k -> PathChars] : k \in 1..MaxPathLen} :
        /\ p[1] = "/"
        /\ \A k \in 1..(Len(p) - 1) : ~(p[k] = "/" /\ p[k + 1] = "/")}

\* crawlDirectory(entryPath) meets entry.Path in the listing: is the entry
\* skipped, and if not, is it dispatched as a directory
InitFilter ==
    /\ AtRest
    /\ \E entryPath \in UrlPaths, path \in UrlPaths : probe = Probe("filter", entryPath, path)

ApplyFilter ==
    /\ probe.op = "filter"
    /\ ~probe.applied
    /\ probe' = [probe EXCEPT !.applied = TRUE,
                              !.ra = Skipped(probe.a, [Path |-> probe.b]),
                              !.rb = HasSuffix(probe.b, << "/" >>)]
    /\ UNCHANGED progVars

SpecFilter == InitFilter /\ [][ApplyFilter]_vars

\* the segments of remote paths, as a listing gives them: plain, with an
\* escaped blank (%20) at an end, a blank alone, and with a broken escape
Segments ==
    {<< "a" >>, << "b" >>, << "a", "%", "2", "0" >>, << "%", "2", "0", "a" >>,
     << "%", "2", "0" >>, << "%", "2" >>}

\* remote file paths: one or two segments
FilePaths ==
    {<< "/" >> \o s : s \in Segments}
    \cup {<< "/" >> \o s \o << "/" >> \o t : s \in Segments, t \in Segments}

\* downloadUrl derives fileName for two entries
InitPath ==
    /\ AtRest
    /\ \E p \in FilePaths, q \in FilePaths : probe = Probe("path", p, q)

ApplyPath ==
    /\ probe.op = "path"
    /\ ~probe.applied
    /\ probe' = [probe EXCEPT !.applied = TRUE,
                              !.ra = getDownloadPath(probe.a),
                              !.rb = getDownloadPath(probe.b)]
    /\ UNCHANGED progVars

SpecPath == InitPath /\ [][ApplyPath]_vars

\* ================================================================== claims
Count(seq, x) == Cardinality({k \in DOMAIN seq : seq[k] = x})

\* the goroutines' stacks are empty and every dispatched branch has done its
\* work and its decrement
AllBranchesCompleted ==
    /\ \A g \in Gor : stack[g] = << >>
    /\ \A p \in AllPaths : bst[p] \in {"none", "released", "finished"}

\* C1: main reaches its completion point (wg.Wait has returned, "Done!" is
\* printed) only when every dispatched branch, also one spawned by a spawned
\* branch, has finished; no dispatched crawlDirectory or saveContent task is
\* then still pending or running. (The code lets main finish too early.)
C1_DoneOnlyWhenDrained ==
    mainpc = "done" => \A p \in AllPaths : bst[p] \in {"none", "finished"}

\* C2: for every limit and every mixture of concurrent and inline branches,
\* threads is 0 once all branches have completed.
C2_CountReturnsToZero == AllBranchesCompleted => threads = 0

\* a run with more admission requests than the limit: some branch ran as a
\* goroutine, some branch was refused and ran inline, and all have completed
C2_Witness ==
    /\ AllBranchesCompleted
    /\ maxThreads >= 1
    /\ \E p, q \in AllPaths : mode[p] = "async" /\ mode[q] = "inline"

\* C3: a dispatch increments threads atomically; the branch becomes a new
\* goroutine if and only if the value the increment returned is <= maxThreads;
\* otherwise the dispatch decrements threads back and the branch runs inline,
\* as a new innermost call of the dispatching goroutine.
C3_AdmitIffWithinLimit ==
    [][\A p \in AllPaths :
          /\ incs'[p] = incs[p] + 1 =>
                threads' = threads + 1 /\ admitted'[p] = threads'
          /\ (mode[p] = "none" /\ mode'[p] = "async") =>
                /\ admitted[p] <= maxThreads
                /\ threads' = threads
                /\ bst'[p] = "pending"
                /\ \A g \in Gor : Len(stack'[g]) = Len(stack[g])
          /\ (mode[p] = "none" /\ mode'[p] = "inline") =>
                /\ admitted[p] > maxThreads
                /\ threads' = threads - 1
                /\ \E g \in Gor :
                      /\ Len(stack'[g]) = Len(stack[g]) + 1
                      /\ stack'[g][Len(stack'[g])].path = p
                      /\ stack[g][Len(stack[g])].pc = "decide"
          /\ (mode'[p] = "async" => admitted'[p] <= maxThreads)
          /\ (mode'[p] = "inline" => admitted'[p] > maxThreads)
      ]_vars

\* a branch admitted exactly at the limit runs as a goroutine while the next
\* request, one above the limit, runs inline
C3_Witness ==
    \E p, q \in AllPaths :
       /\ mode[p] = "async" /\ admitted[p] = maxThreads
       /\ mode[q] = "inline" /\ admitted[q] = maxThreads + 1

ErrorOutcomes == {"patherr", "mkdirerr", "geterr", "createerr", "readerr", "writeerr"}

\* C4: every branch has exactly one increment of threads, made before it
\* starts, and exactly one matching decrement once its unit of work has
\* finished, whichever way the work ends (success, error, early return); a
\* goroutine's decrement is not made before its work has finished.
C4_OneIncrementOneDecrement ==
    \A p \in AllPaths :
       /\ incs[p] <= 1
       /\ decs[p] <= incs[p]
       /\ bst[p] # "none" => incs[p] = 1
       /\ (mode[p] = "async" /\ bst[p] \in {"pending", "running", "worked"}) => decs[p] = 0
       /\ bst[p] \in {"released", "finished"} => incs[p] = 1 /\ decs[p] = 1

\* a download that failed and a file found intact (an early return) have both
\* finished, one as a goroutine and one inline
C4_Witness ==
    \E p, q \in AllPaths :
       /\ bst[p] = "finished" /\ outcome[p] \in ErrorOutcomes
       /\ bst[q] = "finished" /\ outcome[q] = "intact"
       /\ mode[p] # mode[q]
       /\ decs[p] = 1 /\ decs[q] = 1

\* the local path of a file entry
LP(p) == DownloadPathOf[p].val

\* saveContent of p is the innermost call of some goroutine, at one of pcs
SaveAt(p, pcs) ==
    \E g \in Gor :
       stack[g] # << >> /\ Top(g).kind = "save" /\ Top(g).path = p /\ Top(g).pc \in pcs

\* the complete lines of the manifest that hold p
Lines(p) == {k \in DOMAIN manifest : manifest[k] = [loc |-> p, complete |-> TRUE]}

\* the crawl has reached the file entry p and dispatched its saveContent
Visited(p) == bst[p] # "none"

\* saveContent has been entered for the file p
Entered(p) == bst[p] \in {"running", "worked", "released", "finished"}

NoWriteFailed == \A p \in Files : Count(log[p], "record_failed") = 0

\* C5: when the crawl has signalled completion, the manifest holds exactly
\* one complete line for each file entry that was visited, and no truncated
\* line, whatever the interleaving (no write to the manifest having failed).
\* (The code signals completion, and the process ends, while a saveContent
\* goroutine it has created has not yet run.)
C5_ManifestCompleteAtDone ==
    (mainpc = "done" /\ NoWriteFailed) =>
        /\ \A p \in Files : Visited(p) => Cardinality(Lines(p)) = 1
        /\ \A k \in DOMAIN manifest : manifest[k].complete

\* what does hold at completion: a file whose saveContent has been entered
\* has exactly one complete line, and no line is truncated
ManifestCompleteForEntered ==
    (mainpc = "done" /\ NoWriteFailed) =>
        /\ \A p \in Files : Entered(p) => Cardinality(Lines(p)) = 1
        /\ \A k \in DOMAIN manifest : manifest[k].complete

\* C6: saveContent writes the entry's location to the manifest before any
\* local-file or network action for the entry, once, and whatever becomes of
\* the download afterwards (not attempted, intact, damaged, done or failed);
\* the line is in the manifest unless the write itself failed.
C6_RecordedFirst ==
    \A p \in Files :
       /\ log[p] # << >> => log[p][1] \in {"record", "record_failed"}
       /\ Count(log[p], "record") + Count(log[p], "record_failed") <= 1
       /\ (log[p] # << >> /\ log[p][1] = "record") => Cardinality(Lines(p)) = 1
       /\ outcome[p] # "none" => log[p] # << >>
       /\ SaveAt(p, {"verify", "get", "read"}) => log[p] # << >>

\* one file was found intact, another one's download failed, and both are in
\* the manifest
C6_Witness ==
    \E p, q \in Files :
       /\ outcome[p] = "intact" /\ Cardinality(Lines(p)) = 1
       /\ outcome[q] \in ErrorOutcomes /\ Cardinality(Lines(q)) = 1
       /\ Count(log[q], "get") = 1

\* C7: a local file that exists with the size the entry reports is Intact:
\* saveContent issues no network fetch for it and leaves the file as it was,
\* and the manifest still holds the entry's URL.
C7_IntactSkipsFetch ==
    \A p \in Files :
       /\ (Count(log[p], "stat") > 0 /\ fs0[LP(p)] = RemoteSize(p)) => outcome[p] = "intact"
       /\ outcome[p] = "intact" =>
             /\ Count(log[p], "get") = 0
             /\ Count(log[p], "remove") = 0
             /\ Count(log[p], "create") = 0
             /\ Count(log[p], "write") = 0
             /\ fs[LP(p)] = RemoteSize(p)
             /\ fs[LP(p)] = fs0[LP(p)]
             /\ log[p][1] = "record" => Cardinality(Lines(p)) = 1

\* a complete local file was found Intact and its URL is in the manifest
C7_Witness ==
    \E p \in Files :
       /\ fs0[LP(p)] = RemoteSize(p)
       /\ outcome[p] = "intact"
       /\ Cardinality(Lines(p)) = 1

\* the run found the local file of p with a size other than the entry's
Damaged(p) == fs0[LP(p)] \notin {Absent, RemoteSize(p)}

\* C8: a local file that exists with another size than the entry reports is
\* Damaged: it is removed before the network fetch is issued, and exactly one
\* fetch is then issued for the entry (no retry).
C8_DamagedRemovedThenFetchedOnce ==
    \A p \in Files :
       /\ Count(log[p], "get") <= 1
       /\ (Damaged(p) /\ Count(log[p], "stat") > 0) =>
             /\ \E k \in DOMAIN log[p] :
                   /\ log[p][k] = "remove"
                   /\ log[p][k - 1] = "stat"
                   /\ \A j \in 1..k : log[p][j] # "get"
             /\ SaveAt(p, {"get"}) => fs[LP(p)] = Absent /\ Count(log[p], "get") = 0
             /\ ~SaveAt(p, {"get"}) => Count(log[p], "get") = 1

\* a damaged file was removed, fetched once and written again
C8_Witness ==
    \E p \in Files :
       /\ Damaged(p)
       /\ outcome[p] = "eof"
       /\ Count(log[p], "get") = 1
       /\ Count(log[p], "write") >= 1

C10_SecondRunFetchesNothing ==
    run >= 2 =>
        /\ \A p \in Files : Count(log[p], "get") = 0 /\ fs[LP(p)] = fs0[LP(p)]
        /\ (CompletedRun /\ NoWriteFailed) => \A p \in Files : Cardinality(Lines(p)) = 1

\* the entries of the listing of d that the loop of crawlDirectory(d) dispatches
ListedIn(d) ==
    {Listing(d)[k].Path : k \in {j \in DOMAIN Listing(d) : ~Skipped(d, Listing(d)[j])}}

Dirs == {p \in AllPaths : HasSuffix(p, << "/" >>)}

\* the unit of work of branch p (its crawlDirectory or saveContent) has returned
WorkOver(p) == bst[p] \in {"worked", "released", "finished"}

\* crawlDirectory(d) has been called and has got the listing of d
Listed(d) ==
    /\ outcome[d] # "listerr"
    /\ \/ d = Root /\ (stack[MainG] = << >> \/ stack[MainG][1].pc # "list")
       \/ WorkOver(d)
       \/ \E g \in Gor : \E k \in DOMAIN stack[g] :
             stack[g][k].kind = "crawl" /\ stack[g][k].path = d /\ stack[g][k].pc # "list"

\* crawlDirectory(d) has returned
Returned(d) == IF d = Root THEN stack[MainG] = << >> ELSE WorkOver(d)

\* the calls of saveContent made for the file p
Fetches(p) == Count(log[p], "record") + Count(log[p], "record_failed")

\* C11: of the entries a listing returns for a directory, each one that is
\* neither a parent link nor the directory itself (each one the filter lets
\* through) is visited exactly once by the time the crawl is complete: a
\* directory has been recursed into, a file has been fetched, as a goroutine
\* or inline; none is skipped and none is visited twice. (The code completes
\* while a dispatched branch has not run.)
C11_VisitedExactlyOnce ==
    mainpc = "done" =>
        \A d \in Dirs : Listed(d) =>
            \A p \in ListedIn(d) :
                /\ incs[p] = 1
                /\ WorkOver(p)
                /\ p \in Files => Fetches(p) = 1

\* what does hold: no entry is dispatched twice or fetched twice, and once
\* crawlDirectory(d) has returned every entry of its listing that the filter
\* lets through has been dispatched
DispatchedExactlyOnce ==
    /\ \A p \in AllPaths : incs[p] <= 1 /\ (p \in Files => Fetches(p) <= 1)
    /\ \A d \in Dirs : (Listed(d) /\ Returned(d)) =>
          \A p \in ListedIn(d) : incs[p] = 1 /\ bst[p] # "none"

C13_EveryBranchTerminates == <>(mainpc = "done" /\ Drained)

\* what does hold: main always emits its completion signal
MainTerminates == <>(mainpc = "done")

\* the segments of a path that are not empty
RECURSIVE NonEmpty(_)
NonEmpty(segs) ==
    IF segs = << >> THEN << >>
    ELSE IF Head(segs) = << >> THEN NonEmpty(Tail(segs))
    ELSE << Head(segs) >> \o NonEmpty(Tail(segs))

\* path is a proper descendant of the directory location: below it, segment by
\* segment, and not the directory itself
ProperDescendant(location, path) ==
    LET l == NonEmpty(Split(location))
        q == NonEmpty(Split(path))
    IN  Len(q) > Len(l) /\ SubSeq(q, 1, Len(l)) = l

\* C14: crawlDirectory(location) discards every listed entry that is not a
\* proper descendant of location (the directory itself, a parent link, a path
\* outside the directory): none is recursed into or fetched. (The test is a
\* test of strings: for a location without a final "/" it lets through the
\* directory itself, listed as location + "/", and its neighbours.)
C14_NonDescendantsDiscarded ==
    (probe.op = "filter" /\ probe.applied /\ ~ProperDescendant(probe.a, probe.b)) => probe.ra

\* what does hold: for a location that ends with "/", as every directory the
\* crawl recurses into does, the entries let through are the proper descendants
FilterRightBelowSlash ==
    (probe.op = "filter" /\ probe.applied /\ HasSuffix(probe.a, << "/" >>)) =>
        (probe.ra <=> ~ProperDescendant(probe.a, probe.b))

\* C20: two distinct remote file paths never derive the same local path (by
\* percent-decoding, trimming and dropping empty segments), so two branches
\* of a crawl target the same local file only if a listing holds the same
\* remote path twice. (Decoding, trimming and dropping lose what tells two
\* paths apart: /a, /a%20 and /%20/a all derive downloads/a.)
C20_DistinctPathsDistinctFiles ==
    (probe.op = "path" /\ probe.applied /\ probe.a # probe.b /\ probe.ra.ok /\ probe.rb.ok)
        => probe.ra.val # probe.rb.val

\* a path of plain segments: no escape and no blank
Plain(p) == \A k \in DOMAIN p : p[k] \notin {"%", " "}

\* what does hold: distinct plain paths derive distinct local paths
PlainPathsDistinctFiles ==
    (probe.op = "path" /\ probe.applied /\ probe.a # probe.b
        /\ Plain(probe.a) /\ Plain(probe.b))
        => (probe.ra.ok /\ probe.rb.ok /\ probe.ra.val # probe.rb.val)

\* C15: when a fetch has terminated in download mode, the local file of the
\* entry is absent or complete, its size the entry's size; no terminated fetch
\* leaves a file of another size. (A download that ends at end-of-stream can
\* leave a short file.)
C15_TerminatedFetchAbsentOrComplete ==
    ~writeUrlOnly =>
        \A p \in Files : outcome[p] # "none" => fs[LP(p)] \in {Absent, RemoteSize(p)}

\* C16: when a download ends with a clean end-of-stream, the local file holds
\* every byte the response delivered, the bytes of the read that reported the
\* end-of-stream included. (The bytes delivered together with io.EOF are not
\* written.)
C16_EveryDeliveredByteWritten ==
    \A p \in Files : outcome[p] = "eof" => fs[LP(p)] = RemoteSize(p)

\* what does hold: at a clean end-of-stream the file lacks at most the bytes
\* of one read
EofLosesAtMostOneRead ==
    \A p \in Files : outcome[p] = "eof" =>
        /\ fs[LP(p)] <= RemoteSize(p)
        /\ RemoteSize(p) - fs[LP(p)] <= BufSize

\* goroutine g is inside writeUrl with the mutex
InsideAppend(g) == stack[g] # << >> /\ Top(g).kind = "save" /\ Top(g).pc = "write"

DownloadOutcomes == {"intact", "eof"} \cup ErrorOutcomes

\* C17: at most one branch at a time is inside the manifest append, between
\* urlFileMtx.Lock() and Unlock(); the mutex is released on every return of
\* writeUrl; a failed write is swallowed: the branch goes on (to its
\* download, or to its end in manifest-only mode) and later appends are not
\* blocked; a truncated line comes from a failed write only.
C17_AppendSerialized ==
    /\ Cardinality(inAppend) <= 1
    /\ \A g \in Gor : g \in inAppend <=> InsideAppend(g)
    /\ \A p \in Files : (log[p] # << >> /\ log[p][1] = "record_failed") =>
          IF writeUrlOnly THEN outcome[p] = "urlonly"
          ELSE SaveAt(p, {"verify", "get", "read"}) \/ outcome[p] \in DownloadOutcomes
    /\ \A k \in DOMAIN manifest :
          ~manifest[k].complete => log[manifest[k].loc][1] = "record_failed"

\* the write of /d/s/b's line failed and its download went on to its end;
\* the append of /d/a has been entered after the failed one
C17_Witness ==
    /\ log[FileB] # << >> /\ log[FileB][1] = "record_failed"
    /\ outcome[FileB] = "eof"
    /\ \E g \in Gor : inAppend = {g} /\ Top(g).path = FileA

\* C18: in manifest-only mode saveContent stops after recording the URL: no
\* network fetch is issued for the file and no local file or directory is
\* created, changed or removed.
C18_ManifestOnlyTouchesNothing ==
    writeUrlOnly =>
        /\ fs = fs0
        /\ \A p \in Files :
              /\ \A k \in DOMAIN log[p] : log[p][k] \in {"record", "record_failed"}
              /\ outcome[p] \in {"none", "urlonly"}
              /\ ~SaveAt(p, {"verify", "get", "read"})

\* in manifest-only mode a damaged local file was recorded and left as it was
C18_Witness ==
    /\ writeUrlOnly
    /\ \E p \in Files :
          /\ outcome[p] = "urlonly"
          /\ Cardinality(Lines(p)) = 1
          /\ Damaged(p)
          /\ fs[LP(p)] = fs0[LP(p)]

\* the call of branch p is on the stack of a goroutine right above the
\* crawlDirectory that dispatched it, which waits in its loop
CalledInline(p) ==
    \E g \in Gor : \E k \in 2..Len(stack[g]) :
       /\ stack[g][k].path = p
       /\ stack[g][k - 1].kind = "crawl"
       /\ stack[g][k - 1].pc = "loop"
       /\ \E j \in DOMAIN Listing(stack[g][k - 1].path) :
             Listing(stack[g][k - 1].path)[j].Path = p /\ stack[g][k - 1].i = j + 1

\* C19: a branch that is refused admission runs inline: it is called on the
\* dispatching goroutine, which goes on with its loop only when the whole
\* unit of work of the branch, the inline work of its descendants included,
\* is over; the refused dispatch leaves threads with a net change of zero
\* (its one increment and its one decrement).
C19_RefusedRunsInline ==
    /\ \A p \in AllPaths : mode[p] = "inline" =>
          /\ incs[p] = 1 /\ decs[p] = 1
          /\ bst[p] \in {"running", "finished"}
          /\ bst[p] = "running" <=> CalledInline(p)
          /\ (bst[p] = "finished" /\ p \in Files) => outcome[p] # "none"
          /\ (bst[p] = "finished" /\ p \in Dirs /\ outcome[p] # "listerr") =>
                \A q \in ListedIn(p) :
                   /\ bst[q] # "none"
                   /\ mode[q] = "inline" => bst[q] = "finished"
    /\ \A g \in Gor : \A k \in 1..(Len(stack[g]) - 1) :
          mode[stack[g][k + 1].path] = "inline"

\* with the gate closed /d/s/ ran inline on main's stack and /d/s/b inline
\* inside it; both are over and main is back in the loop of /d/
C19_Witness ==
    /\ mode[DirS] = "inline" /\ bst[DirS] = "finished"
    /\ mode[FileB] = "inline" /\ outcome[FileB] = "eof"
    /\ Len(stack[MainG]) = 1
    /\ Top(MainG).path = Root /\ Top(MainG).pc = "loop"
    /\ threads = 0

\* C21: when the listing gives no size for a file entry, saveContent in
\* download mode always downloads the file again: an existing local file is
\* never taken as Intact; the entry is still visited. (Without a size
\* FileEntry.Size is 0, and an empty local file is taken as Intact.)
C21_NoSizeAlwaysRedownloads ==
    (~sized /\ ~writeUrlOnly) =>
        \A p \in Files :
           /\ outcome[p] # "intact"
           /\ outcome[p] \notin {"none", "patherr", "mkdirerr"} => Count(log[p], "get") = 1

\* what does hold: without a size every entry is still dispatched, and a
\* local file that is absent or not empty is downloaded again
NoSizeRedownloadsUnlessEmpty ==
    (~sized /\ ~writeUrlOnly) =>
        /\ \A d \in Dirs : (Listed(d) /\ Returned(d)) =>
              \A p \in ListedIn(d) : bst[p] # "none"
        /\ \A p \in Files :
              /\ outcome[p] = "intact" => fs0[LP(p)] = 0
              /\ (outcome[p] \notin {"none", "patherr", "mkdirerr"} /\ fs0[LP(p)] # 0)
                    => Count(log[p], "get") = 1

\* the branches admitted as goroutines that have not yet made their release
\* decrement
Holders == {p \in AllPaths : mode[p] = "async" /\ bst[p] \in {"pending", "running", "worked"}}

\* C22: in every reachable state the branches admitted as concurrent tasks
\* that have not yet made their release decrement are at most maxThreads, and
\* threads is never negative (it counts them, and the refused dispatches
\* between their increment and their decrement, which can take it above
\* maxThreads).
C22_HoldersWithinLimit ==
    /\ Cardinality(Holders) <= maxThreads
    /\ threads >= Cardinality(Holders)
    /\ threads >= 0

\* as many goroutines as the limit allows hold their admission while a
\* refused dispatch, between its increment and its decrement, has taken
\* threads above the limit
C22_Witness ==
    /\ maxThreads >= 1
    /\ Cardinality(Holders) = maxThreads
    /\ threads > maxThreads
    /\ \E g \in Gor : At(g, "crawl", "decide") /\ Top(g).n > maxThreads

====
